---- MODULE Spec2Model ----
(***************************************************************************)
(* Drive-through memory timeline: the frame loop (Time), the rigid body of *)
(* the vehicle, the vehicle controller (Car, fixed-heading and steerable   *)
(* variants), the proximity / activation engine (World.update), the memory *)
(* registry (MemoryManager) and the timeline overlay (TimelineUI).         *)
(*                                                                         *)
(* Units.  Lengths are centimetres, velocities millimetres per second,     *)
(* forces newtons, torques newton metres, angles milliradians, highlight   *)
(* intensities hundredths.  The orientation of the body is a yaw in        *)
(* quarter turns (heading).  Every float                                   *)
(* expression of the source is evaluated in this fixed point, truncating   *)
(* toward zero.  Distances are compared through their squares.             *)
(***************************************************************************)
EXTENDS Integers, Sequences, FiniteSets, TLC

VARIABLES
  time,             \* Time: delta of the running frame, position in emit('tick'), frames so far
  keys,             \* Car.keys
  body,             \* Car.body (rigid body owned by the physics service)
  car,              \* Car: isNavigating, navigationTarget, currentSpeed, mesh
  memoryLandmarks,  \* World.memoryLandmarks, in registry order
  world,            \* World: currentHighlightedLandmark and each landmark's highlightIntensity
  memoryManager,    \* MemoryManager: activeMemoryId, activeMemory, previousMemoryId
  variant,          \* the Car class of the build: "fixed", "steerable", "none" (no car)
  events,           \* input events and API calls received so far (bounded)
  camera,           \* Camera: currentRigPosition, orbit angles, mouse drag state
  lastCall,         \* the call that moves the vehicle (teleport, teleportToMemory) received
                    \* last since the previous frame
  build,            \* which build of the application runs, for the bounds of its exploration
  detail,           \* World's detail view, and what is visible in and attached to the scene
  activeTicks       \* history: for each landmark, how many World updates in a row it has been
                    \* the highlighted one (positive) or not (negative), up to SettleTicks

vars ==
  <<time, keys, body, car, memoryLandmarks, world, memoryManager, variant, events,
    camera, lastCall, build, detail, activeTicks>>

----------------------------------------------------------------------------
(* Bounds of the exploration *)

MaxTicks == 14
MaxEvents == 3
NumMemories == 2

\* the free-driving build branches on four keys and on the heading: fewer frames
MaxSteerTicks == 9
MaxSteerEvents == 3

\* the timeline build driven by keys, timeline clicks and teleports together
MaxNavTicks == 5
MaxNavEvents == 3

\* the timeline build with its camera rig, orbited with the mouse
MaxRigTicks == 6
MaxRigEvents == 3

\* the scene before the car exists: landmarks, registry and camera rig only
MaxNoCarTicks == 3
MaxNoCarEvents == 3

\* the timeline build with the detail view and the rig that frames by zone
MaxDetailTicks == 3
MaxDetailEvents == 3

\* the timeline build followed through whole navigations
MaxJourneyTicks == 650
MaxRegistryTicks == 3
MaxHighlightTicks == 24
MaxHighlightEvents == 2
MaxRegistryEvents == 3
\* the last frame before which the visitor still clicks or is moved
MaxClickFrame == 2
MaxJourneyEvents == 2

\* the free-driving build steered only, under frames of different lengths
MaxSteeringTicks == 5
MaxSteeringEvents == 3

----------------------------------------------------------------------------
(* Arithmetic *)

Abs(x) == IF x < 0 THEN -x ELSE x
Min(a, b) == IF a < b THEN a ELSE b
Max(a, b) == IF a > b THEN a ELSE b
TruncDiv(a, b) == IF a >= 0 THEN a \div b ELSE -((-a) \div b)

Vec3(x, y, z) == [x |-> x, y |-> y, z |-> z]
Zero3 == Vec3(0, 0, 0)

\* Squared straight-line distance (Vector3.distanceTo / Vec3.distanceTo before the root)
DistSq(p, q) ==
  (p.x - q.x) * (p.x - q.x) + (p.y - q.y) * (p.y - q.y) + (p.z - q.z) * (p.z - q.z)

Null == "null"

----------------------------------------------------------------------------
(* MemoryManager *)

\* this.memories: id, worldPosition (cm), order
AllMemories == <<
  [id |-> "memory-1", worldPosition |-> Vec3(-800, 0, 2000), order |-> 1],
  [id |-> "memory-2", worldPosition |-> Vec3(800, 0, 5000), order |-> 2],
  [id |-> "memory-3", worldPosition |-> Vec3(-800, 0, 8000), order |-> 3],
  [id |-> "memory-4", worldPosition |-> Vec3(800, 0, 12000), order |-> 4],
  [id |-> "memory-5", worldPosition |-> Vec3(-800, 0, 16000), order |-> 5],
  [id |-> "memory-6", worldPosition |-> Vec3(800, 0, 20000), order |-> 6],
  [id |-> "memory-7", worldPosition |-> Vec3(-800, 0, 24000), order |-> 7],
  [id |-> "memory-8", worldPosition |-> Vec3(800, 0, 28000), order |-> 8],
  [id |-> "memory-9", worldPosition |-> Vec3(-800, 0, 32000), order |-> 9],
  [id |-> "memory-10", worldPosition |-> Vec3(800, 0, 36000), order |-> 10],
  [id |-> "memory-11", worldPosition |-> Vec3(-800, 0, 40000), order |-> 11],
  [id |-> "memory-12", worldPosition |-> Vec3(800, 0, 44000), order |-> 12] >>

memories == SubSeq(AllMemories, 1, NumMemories)

MemoryIds == {memories[i].id : i \in 1..Len(memories)}
UnknownId == "memory-x"

\* a lookup that falls back to the first entry instead of returning null
getMemoryByIdOrFirst(memoryId) ==
  IF \E i \in 1..Len(memories) : memories[i].id = memoryId
  THEN CHOOSE i \in 1..Len(memories) : memories[i].id = memoryId
  ELSE 1

\* getMemoryById: index of the first entry with that id, 0 for null
getMemoryById(memoryId) ==
  IF \E i \in 1..Len(memories) : memories[i].id = memoryId
  THEN CHOOSE i \in 1..Len(memories) :
         /\ memories[i].id = memoryId
         /\ \A j \in 1..(i - 1) : memories[j].id # memoryId
  ELSE 0

\* getMemoriesInOrder: the entries sorted by order (this.memories is listed in order)
getMemoriesInOrder == memories

MemoryManagerInit ==
  [activeMemoryId |-> Null, activeMemory |-> 0, previousMemoryId |-> Null]

setActiveMemory(mm, memoryId) ==
  IF mm.activeMemoryId = memoryId THEN mm
  ELSE [activeMemoryId |-> memoryId,
        activeMemory |-> getMemoryById(memoryId),
        previousMemoryId |-> mm.activeMemoryId]

clearActiveMemory(mm) ==
  [activeMemoryId |-> Null, activeMemory |-> 0, previousMemoryId |-> mm.activeMemoryId]

----------------------------------------------------------------------------
(* Car: constants of the constructor *)

mass == 800
maxSpeed == 25000
acceleration == 25
brakingForce == 20
navigationSpeed == 15
navigationArrivalDistance == 200
navigationZTolerance == 50
colliderOffset == 10
height == 60
groundHeight == colliderOffset + height \div 2
verticalDeadband == 10
velocityThreshold == 50
dampingFactor == 85

\* World: constants of the constructor
proximityRadius == 1500
highlightSpeed == 5
FullIntensity == 100

----------------------------------------------------------------------------
(* Rigid-body physics service: one frame advances the body by fixed sub-steps *)

FixedStepHz == 60
MaxSubSteps == 10
Deltas == {167}

\* a 60 Hz frame, a slow frame and a stalled one
SteeringDeltas == {16, 50, 167}

\* the frames of a display refreshing at 60 Hz: one fixed sub-step each
JourneyDeltas == {17}

\* number of fixed sub-steps the accumulated frame time pays for, at most MaxSubSteps
SubStepsFor(delta) == Min(MaxSubSteps, (delta * FixedStepHz) \div 1000)

\* (1 - linearDamping) ^ (1 / FixedStepHz), in ten-thousandths; linearDamping in tenths
DampPerStep(linearDamping) == IF linearDamping = 8 THEN 9735 ELSE 9941

\* (1 - angularDamping) ^ (1 / FixedStepHz) for angularDamping = 0.5, in ten-thousandths
AngularDampPerStep == 9885

\* moments of inertia of the 3.5 x 0.6 x 1.6 box of 800 kg, kg m^2
Inertia == Vec3(195, 987, 841)

\* one fixed sub-step: v += F/m * dt; v *= (1 - damping)^dt; x += v * dt, and the same
\* for the angular velocity under the torque
Integrate(b) ==
  LET dt == [c \in {"x", "y", "z"} |-> TruncDiv(b.force[c] * 1000, mass * FixedStepHz)]
      f == DampPerStep(b.linearDamping)
      v == [c \in {"x", "y", "z"} |-> TruncDiv((b.velocity[c] + dt[c]) * f, 10000)]
      w == [c \in {"x", "y", "z"} |->
              TruncDiv((b.angularVelocity[c]
                          + TruncDiv(b.torque[c] * 1000, Inertia[c] * FixedStepHz))
                       * AngularDampPerStep, 10000)]
  IN [b EXCEPT !.velocity = Vec3(v["x"], v["y"], v["z"]),
               !.angularVelocity = Vec3(w["x"], w["y"], w["z"]),
               !.position = Vec3(b.position.x + TruncDiv(v["x"], 10 * FixedStepHz),
                                 b.position.y,
                                 b.position.z + TruncDiv(v["z"], 10 * FixedStepHz))]

RECURSIVE SubStep(_, _)
SubStep(b, n) == IF n = 0 THEN b ELSE SubStep(Integrate(b), n - 1)

\* what gravity and the ground contact leave in the vertical velocity after a step
YResidue == {0, 5, -300}

\* the headings a step can leave a body with yaw rate in: unchanged or a quarter turn
\* in the direction of the rate
HeadingsAfter(b) ==
  IF b.angularVelocity.y = 0 THEN {b.heading}
  ELSE {b.heading, (b.heading + (IF b.angularVelocity.y > 0 THEN 1 ELSE 3)) % 4}

\* quaternion.vmult for a yaw of h quarter turns, and its inverse
Rotate(h, v) ==
  CASE h = 0 -> v
    [] h = 1 -> Vec3(v.z, v.y, -v.x)
    [] h = 2 -> Vec3(-v.x, v.y, -v.z)
    [] h = 3 -> Vec3(-v.z, v.y, v.x)

RotateInverse(h, v) == Rotate((4 - h) % 4, v)

----------------------------------------------------------------------------
(* Car, fixed-heading variant *)

BodyInit ==
  [position |-> Vec3(0, groundHeight, 0), velocity |-> Zero3, force |-> Zero3,
   angularVelocity |-> Zero3, torque |-> Zero3, heading |-> 0, linearDamping |-> 3]

\* navigationTarget is <<>> for null and <<p>> for a target p
CarInit ==
  [isNavigating |-> FALSE, navigationTarget |-> <<>>, currentSpeed |-> 0,
   currentSteering |-> 0, meshPosition |-> Zero3]

\* body.applyForce(force, body.position) with force = (0, 0, fz): the force, and the
\* torque position x force about the centre of mass, act in the next physics step
applyForce(b, fz) ==
  [b EXCEPT !.force.z = @ + fz,
            !.torque.x = @ + TruncDiv(b.position.y * fz, 100),
            !.torque.y = @ - TruncDiv(b.position.x * fz, 100)]

\* navigateTo(targetPosition)
\* a navigateTo that stores the target and leaves the mode to the next update
navigateToTargetOnly(c, targetPosition) ==
  [c EXCEPT !.navigationTarget =
              <<Vec3(targetPosition.x, targetPosition.y + colliderOffset + height \div 2,
                     targetPosition.z)>>]

navigateTo(c, targetPosition) ==
  [c EXCEPT !.navigationTarget =
              <<Vec3(targetPosition.x, targetPosition.y + colliderOffset + height \div 2,
                     targetPosition.z)>>,
            !.isNavigating = TRUE]

\* teleport(targetPosition): the body and the car after the call
teleportBody(b, targetPosition) ==
  [b EXCEPT !.position = Vec3(targetPosition.x,
                              targetPosition.y + colliderOffset + height \div 2,
                              targetPosition.z),
            !.velocity = Zero3,
            !.angularVelocity = Zero3,
            !.heading = 0]

\* teleport leaving the navigation state of the car as it was
teleportCarKeepsNavigating(c, targetPosition) ==
  [c EXCEPT !.currentSpeed = 0,
            !.meshPosition = Vec3(targetPosition.x,
                                  targetPosition.y + colliderOffset + height \div 2,
                                  targetPosition.z)]

teleportCar(c, targetPosition) ==
  [c EXCEPT !.currentSpeed = 0,
            !.meshPosition = Vec3(targetPosition.x,
                                  targetPosition.y + colliderOffset + height \div 2,
                                  targetPosition.z),
            !.isNavigating = FALSE,
            !.navigationTarget = <<>>]

\* idleVelocity without the clamp of sub-threshold velocities
idleVelocityNoClamp(vz) == TruncDiv(vz * dampingFactor, 100)

\* idle stabilization: the damped longitudinal velocity, zero under the threshold
idleVelocity(vz) ==
  LET dampedZ == TruncDiv(vz * dampingFactor, 100)
  IN IF Abs(dampedZ) < velocityThreshold THEN 0 ELSE dampedZ

\* the locks of the update without the rotation lock
lockBodyFreeRotation(b) ==
  [b EXCEPT !.position.y = IF @ < groundHeight THEN groundHeight ELSE @,
            !.velocity = Vec3(0, 0, b.velocity.z)]

\* lines 242-277: height clamp, vertical lock, rotation lock, lateral lock
lockBody(b) ==
  [b EXCEPT !.position.y = IF @ < groundHeight THEN groundHeight ELSE @,
            !.angularVelocity = Zero3,
            !.heading = 0,
            !.velocity = Vec3(0, 0, b.velocity.z)]

\* lines 279-322: the navigation branch; returns the body and the car
\* a navigation branch that always pushes up the road, whichever side the target is on
navigationStepOneWay(b, c) ==
  LET target == c.navigationTarget[1]
      arrived == [body |-> [b EXCEPT !.velocity = Zero3],
                  car |-> [c EXCEPT !.isNavigating = FALSE, !.navigationTarget = <<>>,
                                    !.currentSpeed = 0]]
      zDistance == target.z - b.position.z
  IN IF DistSq(b.position, target) < navigationArrivalDistance * navigationArrivalDistance
     THEN arrived
     ELSE IF Abs(zDistance) > navigationZTolerance
          THEN [body |-> applyForce(b, navigationSpeed * mass), car |-> c]
          ELSE arrived

navigationStep(b, c) ==
  LET target == c.navigationTarget[1]
      arrived == [body |-> [b EXCEPT !.velocity = Zero3],
                  car |-> [c EXCEPT !.isNavigating = FALSE, !.navigationTarget = <<>>,
                                    !.currentSpeed = 0]]
      zDistance == target.z - b.position.z
  IN IF DistSq(b.position, target) < navigationArrivalDistance * navigationArrivalDistance
     THEN arrived
     ELSE IF Abs(zDistance) > navigationZTolerance
          THEN [body |-> applyForce(b, IF zDistance > 0 THEN navigationSpeed * mass
                                                      ELSE -(navigationSpeed * mass)),
                car |-> c]
          ELSE arrived

\* lines 324-346: forward / backward keys
driveStep(b, c, k) ==
  IF k.forward
  THEN LET pushed == applyForce(b, acceleration * mass)
       IN IF c.currentSpeed > maxSpeed
          THEN [pushed EXCEPT !.velocity = Vec3(0, 0, maxSpeed)]
          ELSE pushed
  ELSE IF k.backward
       THEN IF c.currentSpeed > -(maxSpeed \div 2)
            THEN applyForce(b, -(brakingForce * mass))
            ELSE b
       ELSE b

\* lines 348-367: idle stabilization; vz is the velocity read at line 249
idleStep(b, c, k, vz) ==
  IF ~(k.forward \/ k.backward) /\ ~c.isNavigating
  THEN [b EXCEPT !.velocity = Vec3(0, 0, idleVelocity(vz)), !.linearDamping = 8]
  ELSE [b EXCEPT !.linearDamping = 3]

\* Car.update without the early return of the navigation branch: the keys act too
updateFixedKeysWhileNavigating(b0, c0, k) ==
  LET vz == b0.velocity.z
      b1 == lockBody(b0)
      c1 == [c0 EXCEPT !.currentSpeed = vz]
      nav == IF c1.isNavigating /\ c1.navigationTarget # <<>>
             THEN navigationStep(b1, c1)
             ELSE [body |-> b1, car |-> c1]
      b2 == idleStep(driveStep(nav.body, nav.car, k), nav.car, k, vz)
  IN [body |-> b2, car |-> [nav.car EXCEPT !.meshPosition = b2.position]]

\* Car.update of the fixed-heading variant; returns the body and the car
updateFixed(b0, c0, k) ==
  LET vz == b0.velocity.z
      b1 == lockBody(b0)
      c1 == [c0 EXCEPT !.currentSpeed = vz]
  IN IF c1.isNavigating /\ c1.navigationTarget # <<>>
     THEN navigationStep(b1, c1)
     ELSE LET b2 == idleStep(driveStep(b1, c1, k), c1, k, vz)
          IN [body |-> b2, car |-> [c1 EXCEPT !.meshPosition = b2.position]]

----------------------------------------------------------------------------
(* Car, steerable variant: the numbers of its update that the fixed-heading     *)
(* variant does not have; mass, maxSpeed, acceleration, brakingForce and the    *)
(* collider are the same.                                                       *)

steeringAngle == 300
steeringSpeed == 2
steeringTorque == 50
movingThreshold == 100
lowSpeedThreshold == 200
stopDamping == 8

\* body.applyLocalForce(force, (0, 0, 0)) with force = (0, 0, fz) in the body's frame
applyLocalForce(b, fz) ==
  LET f == Rotate(b.heading, Vec3(0, 0, fz))
  IN [b EXCEPT !.force = Vec3(@.x + f.x, @.y + f.y, @.z + f.z)]

\* body.applyTorque((0, ty, 0))
applyTorque(b, ty) == [b EXCEPT !.torque.y = @ + ty]

\* lines 588-605: height clamp, vertical dead-band, pitch and roll lock
lockSteerable(b) ==
  [b EXCEPT !.position.y = IF @ < groundHeight THEN groundHeight ELSE @,
            !.velocity.y = IF Abs(@) > verticalDeadband THEN 0 ELSE @,
            !.angularVelocity = Vec3(0, @.y, 0)]

\* steering whose return to the centre is not stopped at the centre
steerPastCentre(currentSteering, k, delta) ==
  IF k.left THEN Min(currentSteering + steeringSpeed * delta, steeringAngle)
  ELSE IF k.right THEN Max(currentSteering - steeringSpeed * delta, -steeringAngle)
  ELSE IF currentSteering > 0 THEN currentSteering - steeringSpeed * delta
  ELSE IF currentSteering < 0 THEN currentSteering + steeringSpeed * delta
  ELSE currentSteering

\* lines 614-638: steer towards the held side, or back to the centre
steer(currentSteering, k, delta) ==
  IF k.left THEN Min(currentSteering + steeringSpeed * delta, steeringAngle)
  ELSE IF k.right THEN Max(currentSteering - steeringSpeed * delta, -steeringAngle)
  ELSE IF currentSteering > 0 THEN Max(currentSteering - steeringSpeed * delta, 0)
  ELSE IF currentSteering < 0 THEN Min(currentSteering + steeringSpeed * delta, 0)
  ELSE currentSteering

\* lines 640-650: yaw torque while moving, yaw damping when stopped
steeringStep(b, currentSteering, currentSpeed) ==
  IF Abs(currentSpeed) > movingThreshold
  THEN applyTorque(b, TruncDiv(currentSteering * steeringTorque * Abs(currentSpeed),
                               1000000))
  ELSE [b EXCEPT !.angularVelocity.y = TruncDiv(@ * stopDamping, 10)]

\* lines 652-699: forward / backward keys, brake and low-speed damping with no key
driveSteerable(b, currentSpeed, k) ==
  LET localVelocity == RotateInverse(b.heading, b.velocity)
  IN IF k.forward
     THEN LET pushed == applyLocalForce(b, acceleration * mass)
              capped == Rotate(b.heading, [localVelocity EXCEPT !.z = Min(@, maxSpeed)])
          IN IF currentSpeed > maxSpeed
             THEN [pushed EXCEPT !.velocity = [capped EXCEPT !.y = 0]]
             ELSE pushed
     ELSE IF k.backward
          THEN IF currentSpeed > -(maxSpeed \div 2)
               THEN applyLocalForce(b, -(brakingForce * mass))
               ELSE b
          ELSE LET braked == applyLocalForce(b, -((brakingForce * mass) \div 2))
                   damped == Rotate(b.heading,
                                    [localVelocity EXCEPT
                                       !.x = TruncDiv(@ * stopDamping, 10),
                                       !.z = TruncDiv(@ * stopDamping, 10)])
               IN IF Abs(currentSpeed) < lowSpeedThreshold
                  THEN [braked EXCEPT !.velocity = [damped EXCEPT !.y = 0]]
                  ELSE braked

\* Car.update of the steerable variant; returns the body and the car
updateSteerable(b0, c0, k, delta) ==
  LET b1 == lockSteerable(b0)
      currentSpeed == RotateInverse(b1.heading, b1.velocity).z
      currentSteering == steer(c0.currentSteering, k, delta)
      b2 == driveSteerable(steeringStep(b1, currentSteering, currentSpeed),
                           currentSpeed, k)
  IN [body |-> b2,
      car |-> [c0 EXCEPT !.currentSpeed = currentSpeed,
                         !.currentSteering = currentSteering,
                         !.meshPosition = b2.position]]

----------------------------------------------------------------------------
(* World: landmarks and the activation engine *)

\* createMemoryLandmarks / createMemoryLandmark: one landmark per memory, in order,
\* 8 m to the left or to the right of the road
createMemoryLandmarks ==
  [i \in 1..Len(getMemoriesInOrder) |->
     [position |-> Vec3(IF getMemoriesInOrder[i].worldPosition.x < 0 THEN -800 ELSE 800,
                        0, getMemoriesInOrder[i].worldPosition.z),
      memoryId |-> getMemoriesInOrder[i].id]]

WorldInit(landmarks) ==
  [currentHighlightedLandmark |-> 0,
   highlightIntensity |-> [i \in 1..Len(landmarks) |-> 0]]

\* the nearest search with "distance <= closestDistance": the last of equals wins
RECURSIVE closestFromLastWins(_, _, _, _, _)
closestFromLastWins(landmarks, carPosition, i, closestLandmark, closestDistance) ==
  IF i > Len(landmarks) THEN closestLandmark
  ELSE LET distance == DistSq(carPosition, landmarks[i].position)
       IN IF /\ distance < proximityRadius * proximityRadius
             /\ (closestLandmark = 0 \/ distance <= closestDistance)
          THEN closestFromLastWins(landmarks, carPosition, i + 1, i, distance)
          ELSE closestFromLastWins(landmarks, carPosition, i + 1, closestLandmark,
                                   closestDistance)

\* lines 319-330: the forEach over the landmarks from index i on; closest = 0 stands for
\* closestLandmark = null with closestDistance = Infinity
RECURSIVE closestFrom(_, _, _, _, _)
closestFrom(landmarks, carPosition, i, closestLandmark, closestDistance) ==
  IF i > Len(landmarks) THEN closestLandmark
  ELSE LET distance == DistSq(carPosition, landmarks[i].position)
       IN IF /\ distance < proximityRadius * proximityRadius
             /\ (closestLandmark = 0 \/ distance < closestDistance)
          THEN closestFrom(landmarks, carPosition, i + 1, i, distance)
          ELSE closestFrom(landmarks, carPosition, i + 1, closestLandmark, closestDistance)

closestLandmarkOf(landmarks, carPosition) == closestFrom(landmarks, carPosition, 1, 0, 0)

\* the selection keeping the current landmark while no landmark is in range
selectLandmarkSticky(w, mm, landmarks, closestLandmark) ==
  IF closestLandmark # w.currentHighlightedLandmark /\ closestLandmark # 0
  THEN [world |->
          [currentHighlightedLandmark |-> closestLandmark,
           highlightIntensity |->
             IF w.currentHighlightedLandmark # 0
             THEN [w.highlightIntensity EXCEPT ![w.currentHighlightedLandmark] = 0]
             ELSE w.highlightIntensity],
        memoryManager |-> setActiveMemory(mm, landmarks[closestLandmark].memoryId)]
  ELSE [world |-> w, memoryManager |-> mm]

\* lines 332-351: selection change, reset of the previous highlight, registry update
selectLandmark(w, mm, landmarks, closestLandmark) ==
  IF closestLandmark # w.currentHighlightedLandmark
  THEN [world |->
          [currentHighlightedLandmark |-> closestLandmark,
           highlightIntensity |->
             IF w.currentHighlightedLandmark # 0
             THEN [w.highlightIntensity EXCEPT ![w.currentHighlightedLandmark] = 0]
             ELSE w.highlightIntensity],
        memoryManager |->
          IF closestLandmark # 0 /\ landmarks[closestLandmark].memoryId # Null
          THEN setActiveMemory(mm, landmarks[closestLandmark].memoryId)
          ELSE mm]
  ELSE IF closestLandmark = 0 /\ w.currentHighlightedLandmark # 0
       THEN [world |->
               [currentHighlightedLandmark |-> 0,
                highlightIntensity |->
                  [w.highlightIntensity EXCEPT ![w.currentHighlightedLandmark] = 0]],
             memoryManager |-> clearActiveMemory(mm)]
       ELSE [world |-> w, memoryManager |-> mm]

\* the number of updates after which a transition from the far end has reached its end
SettleTicks == FullIntensity \div highlightSpeed

ActiveTicksInit == [i \in 1..Len(createMemoryLandmarks) |-> 0]

\* the history after a World.update whose transition loop found landmark current
\* highlighted: its run grows, every other landmark's run of idle updates grows
countActiveTicks(ticks, current) ==
  [i \in DOMAIN ticks |->
     IF i = current
     THEN IF ticks[i] > 0 THEN Min(SettleTicks, ticks[i] + 1) ELSE 1
     ELSE IF ticks[i] < 0 THEN Max(-SettleTicks, ticks[i] - 1) ELSE -1]

\* the transition step raising every landmark, highlighted or not
highlightStepAlwaysUp(intensity, isHighlighted) ==
  Min(FullIntensity, intensity + highlightSpeed)

\* lines 353-368: one landmark's intensity after the transition step
highlightStep(intensity, isHighlighted) ==
  IF isHighlighted THEN Min(FullIntensity, intensity + highlightSpeed)
  ELSE Max(0, intensity - highlightSpeed)

\* a World.update whose transition loop passes over the highlighted landmark
updateWorldIdleOnly(w, mm, landmarks, carExists, carPosition) ==
  IF ~carExists
  THEN [world |-> w, memoryManager |-> mm]
  ELSE
  LET sel == selectLandmark(w, mm, landmarks, closestLandmarkOf(landmarks, carPosition))
  IN [world |->
        [sel.world EXCEPT !.highlightIntensity =
           [i \in 1..Len(landmarks) |->
              IF i = sel.world.currentHighlightedLandmark
              THEN sel.world.highlightIntensity[i]
              ELSE highlightStep(sel.world.highlightIntensity[i], FALSE)]],
      memoryManager |-> sel.memoryManager]

\* World.update with the car present; returns the world and the registry
updateWorld(w, mm, landmarks, carExists, carPosition) ==
  IF ~carExists
  THEN [world |-> w, memoryManager |-> mm]
  ELSE
  LET sel == selectLandmark(w, mm, landmarks, closestLandmarkOf(landmarks, carPosition))
  IN [world |->
        [sel.world EXCEPT !.highlightIntensity =
           [i \in 1..Len(landmarks) |->
              highlightStep(sel.world.highlightIntensity[i],
                            i = sel.world.currentHighlightedLandmark)]],
      memoryManager |-> sel.memoryManager]

----------------------------------------------------------------------------
(* Camera: the rig that follows the car, orbited with the mouse.  Angles are in  *)
(* milliradians; sines and cosines are taken at the nearest multiple of thirty   *)
(* degrees, in thousandths.                                                      *)

followDistance == 1200
followHeight == 500
rigSmoothness == 1
snapDistance == 2000
minHeight == 200
orbitSensitivity == 3
pitchMin == -1047
pitchMax == 1047
initialOrbitYaw == -1571
initialOrbitPitch == 2618

SinTable == <<0, 500, 866, 1000, 866, 500, 0, -500, -866, -1000, -866, -500>>

\* the multiple of thirty degrees nearest to angle a, 0..11
Twelfth(a) == ((a * 10 + 2618 + 4 * 62832) \div 5236) % 12

Sin(a) == SinTable[Twelfth(a) + 1]
Cos(a) == SinTable[((Twelfth(a) + 3) % 12) + 1]

\* targetYaw, targetPitch and inZone belong to the rig that frames by zone
CameraInit ==
  [currentRigPosition |-> Vec3(-500, 500, 500),
   orbitYaw |-> initialOrbitYaw, orbitPitch |-> initialOrbitPitch,
   isDragging |-> FALSE, lastMouseX |-> 0, lastMouseY |-> 0,
   targetYaw |-> initialOrbitYaw, targetPitch |-> initialOrbitPitch, inZone |-> FALSE]

\* mousedown handler
mouseDown(cam, clientX, clientY) ==
  [cam EXCEPT !.isDragging = TRUE, !.lastMouseX = clientX, !.lastMouseY = clientY]

\* mousemove handler: orbit while dragging, pitch clamped
mouseMove(cam, clientX, clientY) ==
  IF ~cam.isDragging THEN cam
  ELSE [cam EXCEPT
          !.orbitYaw = @ - (clientX - cam.lastMouseX) * orbitSensitivity,
          !.orbitPitch = Max(pitchMin,
                             Min(pitchMax,
                                 @ - (clientY - cam.lastMouseY) * orbitSensitivity)),
          !.lastMouseX = clientX,
          !.lastMouseY = clientY]

\* mouseup and mouseleave handlers
mouseUp(cam) == [cam EXCEPT !.isDragging = FALSE]

\* the rig position orbiting the car without the ground clamp
targetRigPositionUnclamped(cam, carPosition) ==
  LET x == TruncDiv(followDistance * Cos(cam.orbitPitch) * Sin(cam.orbitYaw), 1000000)
      y == TruncDiv(followDistance * Sin(cam.orbitPitch), 1000)
      z == TruncDiv(followDistance * Cos(cam.orbitPitch) * Cos(cam.orbitYaw), 1000000)
  IN Vec3(carPosition.x + x, carPosition.y + followHeight + y, carPosition.z + z)

\* lines 223-245: the rig position orbiting the car, not below minHeight
targetRigPosition(cam, carPosition) ==
  LET x == TruncDiv(followDistance * Cos(cam.orbitPitch) * Sin(cam.orbitYaw), 1000000)
      y == TruncDiv(followDistance * Sin(cam.orbitPitch), 1000)
      z == TruncDiv(followDistance * Cos(cam.orbitPitch) * Cos(cam.orbitYaw), 1000000)
      ty == carPosition.y + followHeight + y
  IN Vec3(carPosition.x + x, IF ty < minHeight THEN minHeight ELSE ty, carPosition.z + z)

\* Vector3.lerp(target, rigSmoothness)
lerp(p, q) ==
  Vec3(p.x + TruncDiv((q.x - p.x) * rigSmoothness, 10),
       p.y + TruncDiv((q.y - p.y) * rigSmoothness, 10),
       p.z + TruncDiv((q.z - p.z) * rigSmoothness, 10))

\* lines 247-257: snap over the teleport-detection distance, else blend
blendRig(current, target) ==
  IF DistSq(current, target) > snapDistance * snapDistance
  THEN target
  ELSE lerp(current, target)

\* a rig update that follows the body's position whether or not the car exists
updateCameraNoGuard(cam, carExists, carPosition) ==
  [cam EXCEPT !.currentRigPosition = blendRig(@, targetRigPosition(cam, carPosition))]

\* Camera.update; carExists stands for experience.car being set
updateCamera(cam, carExists, carPosition) ==
  IF ~carExists THEN cam
  ELSE [cam EXCEPT !.currentRigPosition =
                      blendRig(@, targetRigPosition(cam, carPosition))]

----------------------------------------------------------------------------
(* World with the detail view: a click on a landmark's open button hides the   *)
(* scene and shows the memory's gallery on a billboard group; the close button *)
(* brings the scene back.  Scene objects are named; a detail view group is     *)
(* known by the order of its creation.                                         *)

detailLerpSpeed == 8

\* the objects World and Car add to the scene
SceneObjects == {"ground", "decorative", "car"} \cup MemoryIds

\* the test of the traverse in openDetailView: memory groups and decorative groups
Hideable(object) == object = "decorative" \/ object \in MemoryIds

\* memory.gallery.length; the registry with galleries lists two memories
galleryLength(i) == IF i = 2 THEN 4 ELSE 3

\* memoryLandmarks.find(l => l.memoryId === memoryId), 0 when there is none
landmarkOf(landmarks, memoryId) ==
  IF \E i \in 1..Len(landmarks) : landmarks[i].memoryId = memoryId
  THEN CHOOSE i \in 1..Len(landmarks) :
         /\ landmarks[i].memoryId = memoryId
         /\ \A j \in 1..(i - 1) : landmarks[j].memoryId # memoryId
  ELSE 0

\* openButton is the set of landmarks whose open button is visible; detailViewGroup is
\* 0 for null; created counts the groups made so far
DetailInit ==
  [activeDetailView |-> Null, detailViewGroup |-> 0, galleryCurrentIndex |-> 0,
   hiddenObjects |-> {}, detailOpen |-> FALSE, detailTransitionProgress |-> 0,
   openButton |-> {}, visible |-> SceneObjects, attached |-> {}, created |-> 0]

\* openDetailView that leaves the camera's target angles alone
openDetailViewKeepsAngles(det, cam, landmarks, memoryId) ==
  IF getMemoryById(memoryId) = 0 \/ galleryLength(getMemoryById(memoryId)) = 0
       \/ landmarkOf(landmarks, memoryId) = 0
  THEN [detail |-> det, camera |-> cam]
  ELSE LET hidden == {object \in det.visible : Hideable(object)}
           group == det.created + 1
       IN [detail |-> [det EXCEPT !.activeDetailView = memoryId,
                                  !.galleryCurrentIndex = 0,
                                  !.hiddenObjects = hidden,
                                  !.openButton = {},
                                  !.visible = @ \ hidden,
                                  !.detailViewGroup = group,
                                  !.created = group,
                                  !.detailTransitionProgress = 0,
                                  !.detailOpen = TRUE,
                                  !.attached = @ \cup {group}],
           camera |-> cam]

\* World.openDetailView(memoryId); returns the detail state and the camera
openDetailView(det, cam, landmarks, memoryId) ==
  IF getMemoryById(memoryId) = 0 \/ galleryLength(getMemoryById(memoryId)) = 0
       \/ landmarkOf(landmarks, memoryId) = 0
  THEN [detail |-> det, camera |-> cam]
  ELSE LET hidden == {object \in det.visible : Hideable(object)}
           group == det.created + 1
       IN [detail |-> [det EXCEPT !.activeDetailView = memoryId,
                                  !.galleryCurrentIndex = 0,
                                  !.hiddenObjects = hidden,
                                  !.openButton = {},
                                  !.visible = @ \ hidden,
                                  !.detailViewGroup = group,
                                  !.created = group,
                                  !.detailTransitionProgress = 0,
                                  !.detailOpen = TRUE,
                                  !.attached = @ \cup {group}],
           camera |-> [cam EXCEPT !.targetYaw = 0, !.targetPitch = 0]]

\* World.closeDetailView(); returns the detail state and the camera
closeDetailView(det, cam, landmarks) ==
  IF det.activeDetailView = Null
  THEN [detail |-> det, camera |-> cam]
  ELSE [detail |-> [det EXCEPT !.detailOpen = FALSE,
                               !.visible = @ \cup det.hiddenObjects,
                               !.hiddenObjects = {},
                               !.openButton =
                                 IF landmarkOf(landmarks, det.activeDetailView) # 0
                                 THEN @ \cup {landmarkOf(landmarks, det.activeDetailView)}
                                 ELSE @,
                               !.attached = @ \ {det.detailViewGroup},
                               !.detailViewGroup = 0,
                               !.activeDetailView = Null,
                               !.galleryCurrentIndex = 0,
                               !.detailTransitionProgress = 0],
        camera |-> [cam EXCEPT !.targetYaw = initialOrbitYaw,
                               !.targetPitch = initialOrbitPitch]]

\* prevGalleryImage / nextGalleryImage: step is -1 or 1
stepGalleryImage(det, step) ==
  IF det.activeDetailView = Null \/ getMemoryById(det.activeDetailView) = 0
  THEN det
  ELSE LET length == galleryLength(getMemoryById(det.activeDetailView))
       IN [det EXCEPT !.galleryCurrentIndex = (@ + step + length) % length]

\* the open buttons after the selection of World.update: the previous landmark's button
\* goes, the new one's shows unless a detail view is open, and with no detail view
\* open only the current landmark's button is left visible
buttonsAfterSelection(det, previous, current) ==
  LET changed == IF current # previous
                 THEN (det.openButton \ {previous})
                        \cup (IF current # 0 /\ det.activeDetailView = Null
                              THEN {current} ELSE {})
                 ELSE det.openButton
  IN IF det.activeDetailView = Null
     THEN (IF current # 0 THEN {current} ELSE {})
     ELSE changed

\* the billboard transition at the end of World.update
detailTransition(det) ==
  IF det.detailViewGroup = 0 THEN det
  ELSE IF det.detailOpen
       THEN [det EXCEPT !.detailTransitionProgress = Min(100, @ + detailLerpSpeed)]
       ELSE [det EXCEPT !.detailTransitionProgress = Max(0, @ - detailLerpSpeed)]

\* World.update of the build with the detail view; returns world, registry and detail
updateWorldDetail(w, mm, landmarks, det, carExists, carPosition) ==
  IF ~carExists
  THEN [world |-> w, memoryManager |-> mm, detail |-> det]
  ELSE LET r == updateWorld(w, mm, landmarks, carExists, carPosition)
       IN [world |-> r.world,
           memoryManager |-> r.memoryManager,
           detail |-> detailTransition(
                        [det EXCEPT !.openButton =
                           buttonsAfterSelection(det, w.currentHighlightedLandmark,
                                                 r.world.currentHighlightedLandmark)])]

----------------------------------------------------------------------------
(* The rig that frames by zone: while the vehicle is within the zone radius of *)
(* a landmark the orbit angles are drawn toward the in-zone pair, otherwise    *)
(* toward the initial pair; the target pair is switched when the vehicle       *)
(* enters or leaves the zones.                                                 *)

zoneRadius == proximityRadius
zoneTargetYaw == -785
zoneTargetPitch == 524
angleSmoothness == 1

InAnyZone(landmarks, carPosition) ==
  \E i \in 1..Len(landmarks) :
    DistSq(carPosition, landmarks[i].position) < zoneRadius * zoneRadius

\* FreeRoam -> InZone and back: the target pair of the state entered
switchZone(cam, inZone) ==
  IF inZone = cam.inZone THEN cam
  ELSE [cam EXCEPT !.inZone = inZone,
                   !.targetYaw = IF inZone THEN zoneTargetYaw ELSE initialOrbitYaw,
                   !.targetPitch = IF inZone THEN zoneTargetPitch ELSE initialOrbitPitch]

\* the orbit angles drawn toward the target pair at a fixed rate per tick
blendAngles(cam) ==
  [cam EXCEPT !.orbitYaw = @ + TruncDiv((cam.targetYaw - @) * angleSmoothness, 10),
              !.orbitPitch = @ + TruncDiv((cam.targetPitch - @) * angleSmoothness, 10)]

\* the rig update of the zone-framing camera
updateZoneCamera(cam, landmarks, carExists, carPosition) ==
  IF ~carExists THEN cam
  ELSE updateCamera(blendAngles(switchZone(cam, InAnyZone(landmarks, carPosition))),
                    carExists, carPosition)

----------------------------------------------------------------------------
(* Time: the listeners of 'tick' in registration order *)

\* The constructors register their callbacks with Time.on in construction order:
\* physics service, Car, World (timeline build only)
TimelineListeners == <<"physics", "car", "world">>
SteerableListeners == <<"physics", "car">>

\* timeline build with the listener of Experience, which updates the camera, last
RigListeners == <<"physics", "car", "world", "camera">>

\* the listeners registered while experience.car is not set: World's and Experience's
NoCarListeners == <<"world", "camera">>

\* time.pc = 0 between two frames, otherwise the index of the callback emit runs next
TimeInit(listeners) == [delta |-> 16, pc |-> 0, frames |-> 0, listeners |-> listeners]

NothingReceived == [name |-> "none", arg |-> ""]

\* lastCall after the running callback: forgotten when the frame is over, except in
\* the build that follows one navigation to its end
afterCallback(t, received) ==
  IF t.pc = Len(t.listeners) /\ build # "journey" THEN NothingReceived ELSE received

\* emit calling every other callback only
nextCallbackSkipping(t) == [t EXCEPT !.pc = IF @ + 2 > Len(t.listeners) THEN 0 ELSE @ + 2]

\* emit: after the running callback comes the next one, or the frame is over
nextCallback(t) == [t EXCEPT !.pc = IF @ = Len(t.listeners) THEN 0 ELSE @ + 1]

Running(name) == time.pc # 0 /\ time.listeners[time.pc] = name

\* the callback that has just returned
Returned(name) ==
  /\ time.frames > 0
  /\ \E i \in 1..Len(time.listeners) :
       /\ time.listeners[i] = name
       /\ time.pc = IF i = Len(time.listeners) THEN 0 ELSE i + 1

\* the frames and the events explored in the running build
FrameBound ==
  CASE build = "steer" -> MaxSteerTicks
    [] build = "nav" -> MaxNavTicks
    [] build = "rig" -> MaxRigTicks
    [] build = "nocar" -> MaxNoCarTicks
    [] build = "steering" -> MaxSteeringTicks
    [] build = "detail" -> MaxDetailTicks
    [] build = "journey" -> MaxJourneyTicks
    [] build = "registry" -> MaxRegistryTicks
    [] build = "highlight" -> MaxHighlightTicks
    [] OTHER -> MaxTicks

EventBound ==
  CASE build = "steer" -> MaxSteerEvents
    [] build = "nav" -> MaxNavEvents
    [] build = "rig" -> MaxRigEvents
    [] build = "nocar" -> MaxNoCarEvents
    [] build = "steering" -> MaxSteeringEvents
    [] build = "detail" -> MaxDetailEvents
    [] build = "journey" -> MaxJourneyEvents
    [] build = "registry" -> MaxRegistryEvents
    [] build = "highlight" -> MaxHighlightEvents
    [] OTHER -> MaxEvents

\* the frame lengths Date.now() measures in the running build, ms
FrameDeltas ==
  CASE build = "steering" -> SteeringDeltas
    [] build = "journey" -> JourneyDeltas
    [] OTHER -> Deltas

\* Time.tick: measure delta and start emitting
Tick ==
  /\ time.pc = 0
  /\ time.frames < FrameBound
  /\ \E d \in FrameDeltas : time' = [time EXCEPT !.delta = d, !.pc = 1, !.frames = @ + 1]
  /\ UNCHANGED <<keys, body, car, memoryLandmarks, world, memoryManager, variant,
                 events, camera, lastCall, build, detail, activeTicks>>

\* the physics service's listener: step the world, then clear the applied forces
PhysicsStep ==
  /\ Running("physics")
  /\ \E vy \in YResidue, h \in HeadingsAfter(SubStep(body, SubStepsFor(time.delta))) :
       body' = [SubStep(body, SubStepsFor(time.delta)) EXCEPT !.force = Zero3,
                                                               !.torque = Zero3,
                                                               !.velocity.y = vy,
                                                               !.heading = h]
  /\ time' = nextCallback(time)
  /\ UNCHANGED <<keys, car, memoryLandmarks, world, memoryManager, variant,
                 events, camera, build, detail, activeTicks>>
  /\ lastCall' = afterCallback(time, lastCall)

\* Car's listener, fixed-heading variant
CarUpdate ==
  /\ Running("car")
  /\ variant = "fixed"
  /\ LET r == updateFixed(body, car, keys)
     IN body' = r.body /\ car' = r.car
  /\ time' = nextCallback(time)
  /\ UNCHANGED <<keys, memoryLandmarks, world, memoryManager, variant, events,
                 camera, build, detail, activeTicks>>
  /\ lastCall' = afterCallback(time, lastCall)

\* Car's listener, steerable variant
CarUpdateSteer ==
  /\ Running("car")
  /\ variant = "steerable"
  /\ LET r == updateSteerable(body, car, keys, time.delta)
     IN body' = r.body /\ car' = r.car
  /\ time' = nextCallback(time)
  /\ UNCHANGED <<keys, memoryLandmarks, world, memoryManager, variant, events,
                 camera, build, detail, activeTicks>>
  /\ lastCall' = afterCallback(time, lastCall)

\* World's listener
WorldUpdate ==
  /\ Running("world")
  /\ LET r == updateWorld(world, memoryManager, memoryLandmarks, variant # "none",
                          body.position)
     IN /\ world' = r.world
        /\ memoryManager' = r.memoryManager
        /\ activeTicks' = IF build = "highlight"
                          THEN countActiveTicks(activeTicks,
                                                r.world.currentHighlightedLandmark)
                          ELSE activeTicks
  /\ time' = nextCallback(time)
  /\ UNCHANGED <<keys, body, car, memoryLandmarks, variant, events, camera, build, detail>>
  /\ lastCall' = afterCallback(time, lastCall)

\* Experience's listener: Experience.update calls camera.update, then renders
CameraUpdate ==
  /\ Running("camera")
  /\ camera' = updateCamera(camera, variant # "none", body.position)
  /\ time' = nextCallback(time)
  /\ lastCall' = afterCallback(time, lastCall)
  /\ UNCHANGED <<keys, body, car, memoryLandmarks, world, memoryManager, variant, events,
                 build, detail, activeTicks>>

\* World's listener in the build with the detail view
WorldDetailUpdate ==
  /\ Running("world")
  /\ LET r == updateWorldDetail(world, memoryManager, memoryLandmarks, detail,
                                variant # "none", body.position)
     IN world' = r.world /\ memoryManager' = r.memoryManager /\ detail' = r.detail
  /\ time' = nextCallback(time)
  /\ lastCall' = afterCallback(time, lastCall)
  /\ UNCHANGED <<keys, body, car, memoryLandmarks, variant, events, camera, build, activeTicks>>

\* Experience's listener in the build whose rig frames by zone
ZoneCameraUpdate ==
  /\ Running("camera")
  /\ camera' = updateZoneCamera(camera, memoryLandmarks, variant # "none", body.position)
  /\ time' = nextCallback(time)
  /\ lastCall' = afterCallback(time, lastCall)
  /\ UNCHANGED <<keys, body, car, memoryLandmarks, world, memoryManager, variant, events,
                 build, detail, activeTicks>>

----------------------------------------------------------------------------
(* Input events and calls from collaborators, between two frames *)

\* the record of a call that runs now
Received(name, arg) == [name |-> name, arg |-> arg]

BetweenFrames ==
  /\ time.pc = 0
  /\ events < EventBound

\* a keydown handler that drives the body itself instead of leaving it to Car.update
KeyDownPushing(k) ==
  /\ BetweenFrames
  /\ keys' = [keys EXCEPT ![k] = TRUE]
  /\ body' = IF k = "forward" THEN applyForce(body, acceleration * mass) ELSE body
  /\ events' = events + 1
  /\ UNCHANGED <<time, car, memoryLandmarks, world, memoryManager, variant, camera,
                 lastCall, build, detail, activeTicks>>

KeyDown(k) ==
  /\ BetweenFrames
  /\ keys' = [keys EXCEPT ![k] = TRUE]
  /\ events' = events + 1
  /\ UNCHANGED <<time, body, car, memoryLandmarks, world, memoryManager, variant, camera,
                 lastCall, build, detail, activeTicks>>

KeyUp(k) ==
  /\ BetweenFrames
  /\ keys' = [keys EXCEPT ![k] = FALSE]
  /\ events' = events + 1
  /\ UNCHANGED <<time, body, car, memoryLandmarks, world, memoryManager, variant, camera,
                 lastCall, build, detail, activeTicks>>

MouseDown(clientX, clientY) ==
  /\ BetweenFrames
  /\ camera' = mouseDown(camera, clientX, clientY)
  /\ events' = events + 1
  /\ UNCHANGED <<time, keys, body, car, memoryLandmarks, world, memoryManager, variant,
                 lastCall, build, detail, activeTicks>>

MouseMove(clientX, clientY) ==
  /\ BetweenFrames
  /\ camera' = mouseMove(camera, clientX, clientY)
  /\ events' = events + 1
  /\ UNCHANGED <<time, keys, body, car, memoryLandmarks, world, memoryManager, variant,
                 lastCall, build, detail, activeTicks>>

\* mouseup or mouseleave
MouseUp ==
  /\ BetweenFrames
  /\ camera' = mouseUp(camera)
  /\ events' = events + 1
  /\ UNCHANGED <<time, keys, body, car, memoryLandmarks, world, memoryManager, variant,
                 lastCall, build, detail, activeTicks>>

\* TimelineUI.teleportToMemory(memoryId): the click handler of a timeline node
TeleportToMemory(memoryId) ==
  /\ BetweenFrames
  /\ IF getMemoryById(memoryId) = 0
     THEN UNCHANGED <<memoryManager, car, activeTicks>>
     ELSE /\ memoryManager' = setActiveMemory(memoryManager, memoryId)
          /\ car' = IF variant = "fixed"
                    THEN navigateTo(car, memories[getMemoryById(memoryId)].worldPosition)
                    ELSE car
  /\ events' = events + 1
  /\ lastCall' = Received("teleportToMemory", memoryId)
  /\ UNCHANGED <<time, keys, body, memoryLandmarks, world, variant, camera, build, detail,
                 activeTicks>>

\* MemoryManager.clearActiveMemory() called through the registry interface
ClearActiveMemory ==
  /\ BetweenFrames
  /\ memoryManager' = clearActiveMemory(memoryManager)
  /\ events' = events + 1
  /\ UNCHANGED <<time, keys, body, car, memoryLandmarks, world,
                 variant, camera, lastCall, build, detail, activeTicks>>

\* Car.teleport(targetPosition) called by a collaborator
Teleport(targetPosition) ==
  /\ BetweenFrames
  /\ variant = "fixed"
  /\ body' = teleportBody(body, targetPosition)
  /\ car' = teleportCar(car, targetPosition)
  /\ events' = events + 1
  /\ lastCall' = Received("teleport", "")
  /\ UNCHANGED <<time, keys, memoryLandmarks, world, memoryManager, variant,
                 camera, build, detail, activeTicks>>

----------------------------------------------------------------------------
(* The timeline build: fixed-heading car, landmarks of the registry *)

DriveKeys == {"forward", "backward"}

Init ==
  /\ time = TimeInit(TimelineListeners)
  /\ keys = [forward |-> FALSE, backward |-> FALSE, left |-> FALSE, right |-> FALSE]
  /\ body = BodyInit
  /\ car = CarInit
  /\ memoryLandmarks = createMemoryLandmarks
  /\ world = WorldInit(createMemoryLandmarks)
  /\ memoryManager = MemoryManagerInit
  /\ variant = "fixed"
  /\ events = 0
  /\ camera = CameraInit
  /\ lastCall = NothingReceived
  /\ build = "timeline"
  /\ detail = DetailInit
  /\ activeTicks = ActiveTicksInit

Next ==
  \/ Tick
  \/ PhysicsStep
  \/ CarUpdate
  \/ WorldUpdate
  \/ \E k \in DriveKeys : KeyDown(k)
  \/ \E k \in DriveKeys : KeyUp(k)
  \/ \E id \in MemoryIds \cup {UnknownId} : TeleportToMemory(id)
  \/ ClearActiveMemory

Spec == Init /\ [][Next]_vars

----------------------------------------------------------------------------
(* The activation engine over landmark layouts: the registry's own layout and one *)
(* with two landmarks facing each other across the road; the vehicle is placed by *)
(* teleport and the frames run.                                                   *)

FacingLandmarks == <<
  [position |-> Vec3(-800, 0, 2000), memoryId |-> "memory-1"],
  [position |-> Vec3(800, 0, 2000), memoryId |-> "memory-2"] >>

LandmarkLayouts == {createMemoryLandmarks, FacingLandmarks}

TeleportPoints ==
  {Vec3(0, 0, 2000), Vec3(400, 0, 2000), Vec3(0, 0, 5000), Vec3(0, 0, 3500),
   Vec3(0, 0, 40000)}

InitActivation ==
  /\ time = TimeInit(TimelineListeners)
  /\ keys = [forward |-> FALSE, backward |-> FALSE, left |-> FALSE, right |-> FALSE]
  /\ body = BodyInit
  /\ car = CarInit
  /\ memoryLandmarks \in LandmarkLayouts
  /\ world = WorldInit(memoryLandmarks)
  /\ memoryManager = MemoryManagerInit
  /\ variant = "fixed"
  /\ events = 0
  /\ camera = CameraInit
  /\ lastCall = NothingReceived
  /\ build = "activation"
  /\ detail = DetailInit
  /\ activeTicks = ActiveTicksInit

NextActivation ==
  \/ Tick
  \/ PhysicsStep
  \/ CarUpdate
  \/ WorldUpdate
  \/ \E p \in TeleportPoints : Teleport(p)

SpecActivation == InitActivation /\ [][NextActivation]_vars

----------------------------------------------------------------------------
(* The timeline build with every way of moving the vehicle: drive keys, clicks on *)
(* the timeline (unknown ids included) and teleports.                             *)

NavTeleportPoints == {Vec3(0, 0, 2000), Vec3(400, 0, 5000)}

InitNav ==
  /\ time = TimeInit(TimelineListeners)
  /\ keys = [forward |-> FALSE, backward |-> FALSE, left |-> FALSE, right |-> FALSE]
  /\ body = BodyInit
  /\ car = CarInit
  /\ memoryLandmarks = createMemoryLandmarks
  /\ world = WorldInit(createMemoryLandmarks)
  /\ memoryManager = MemoryManagerInit
  /\ variant = "fixed"
  /\ events = 0
  /\ camera = CameraInit
  /\ lastCall = NothingReceived
  /\ build = "nav"
  /\ detail = DetailInit
  /\ activeTicks = ActiveTicksInit

NextNav ==
  \/ Tick
  \/ PhysicsStep
  \/ CarUpdate
  \/ WorldUpdate
  \/ \E k \in DriveKeys : KeyDown(k)
  \/ \E k \in DriveKeys : KeyUp(k)
  \/ \E id \in MemoryIds \cup {UnknownId} : TeleportToMemory(id)
  \/ \E p \in NavTeleportPoints : Teleport(p)

SpecNav == InitNav /\ [][NextNav]_vars

----------------------------------------------------------------------------
(* The timeline build with the registry called directly, as any holder of the   *)
(* experience can, between the frames in which World.update writes it too.      *)

\* MemoryManager.setActiveMemory(memoryId) called through the registry interface
SetActiveMemory(memoryId) ==
  /\ BetweenFrames
  /\ memoryManager' = setActiveMemory(memoryManager, memoryId)
  /\ events' = events + 1
  /\ UNCHANGED <<time, keys, body, car, memoryLandmarks, world, variant, camera,
                 lastCall, build, detail, activeTicks>>

InitRegistry ==
  /\ time = TimeInit(TimelineListeners)
  /\ keys = [forward |-> FALSE, backward |-> FALSE, left |-> FALSE, right |-> FALSE]
  /\ body = BodyInit
  /\ car = CarInit
  /\ memoryLandmarks = createMemoryLandmarks
  /\ world = WorldInit(createMemoryLandmarks)
  /\ memoryManager = MemoryManagerInit
  /\ variant = "fixed"
  /\ events = 0
  /\ camera = CameraInit
  /\ lastCall = NothingReceived
  /\ build = "registry"
  /\ detail = DetailInit
  /\ activeTicks = ActiveTicksInit

NextRegistry ==
  \/ Tick
  \/ PhysicsStep
  \/ CarUpdate
  \/ WorldUpdate
  \/ \E id \in MemoryIds \cup {UnknownId} : SetActiveMemory(id)
  \/ ClearActiveMemory
  \/ \E p \in NavTeleportPoints : Teleport(p)

SpecRegistry == InitRegistry /\ [][NextRegistry]_vars

----------------------------------------------------------------------------
(* The timeline build with the vehicle put beside a landmark and left there     *)
(* while the highlight transitions run to their end.                            *)

HighlightPoints == {Vec3(0, 0, 0), Vec3(0, 0, 2000), Vec3(0, 0, 5000)}

InitHighlight ==
  /\ time = TimeInit(TimelineListeners)
  /\ keys = [forward |-> FALSE, backward |-> FALSE, left |-> FALSE, right |-> FALSE]
  /\ body = BodyInit
  /\ car = CarInit
  /\ memoryLandmarks = createMemoryLandmarks
  /\ world = WorldInit(createMemoryLandmarks)
  /\ memoryManager = MemoryManagerInit
  /\ variant = "fixed"
  /\ events = 0
  /\ camera = CameraInit
  /\ lastCall = NothingReceived
  /\ build = "highlight"
  /\ detail = DetailInit
  /\ activeTicks = ActiveTicksInit

NextHighlight ==
  \/ Tick
  \/ PhysicsStep
  \/ CarUpdate
  \/ WorldUpdate
  \/ \E p \in HighlightPoints : time.frames <= MaxClickFrame /\ Teleport(p)

SpecHighlight == InitHighlight /\ [][NextHighlight]_vars

----------------------------------------------------------------------------
(* The timeline build with its camera rig: the vehicle is driven forward or      *)
(* teleported near (5 m) and far (50 m), the rig is orbited with the mouse.      *)

RigKeys == {"forward"}

RigTeleportPoints == {Vec3(0, 0, 500), Vec3(0, 0, 5000)}

\* clientX, clientY of the mouse events: a press, a drag to the side, a drag down
MousePress == <<0, 0>>
MouseDrags == {<<349, 0>>, <<0, 1396>>}

InitRig ==
  /\ time = TimeInit(RigListeners)
  /\ keys = [forward |-> FALSE, backward |-> FALSE, left |-> FALSE, right |-> FALSE]
  /\ body = BodyInit
  /\ car = CarInit
  /\ memoryLandmarks = createMemoryLandmarks
  /\ world = WorldInit(createMemoryLandmarks)
  /\ memoryManager = MemoryManagerInit
  /\ variant = "fixed"
  /\ events = 0
  /\ camera = CameraInit
  /\ lastCall = NothingReceived
  /\ build = "rig"
  /\ detail = DetailInit
  /\ activeTicks = ActiveTicksInit

NextRig ==
  \/ Tick
  \/ PhysicsStep
  \/ CarUpdate
  \/ WorldUpdate
  \/ CameraUpdate
  \/ \E k \in RigKeys : KeyDown(k)
  \/ \E k \in RigKeys : KeyUp(k)
  \/ \E p \in RigTeleportPoints : Teleport(p)
  \/ MouseDown(MousePress[1], MousePress[2])
  \/ \E m \in MouseDrags : MouseMove(m[1], m[2])
  \/ MouseUp

SpecRig == InitRig /\ [][NextRig]_vars

----------------------------------------------------------------------------
(* The scene while experience.car is not set: World and the camera rig tick,  *)
(* the timeline and the mouse are live, and there is no body to follow. body   *)
(* and car stand for nothing yet and no listener reads them; body is placed    *)
(* beside the first landmark, where an update that did read it would react.    *)

InitNoCar ==
  /\ time = TimeInit(NoCarListeners)
  /\ keys = [forward |-> FALSE, backward |-> FALSE, left |-> FALSE, right |-> FALSE]
  /\ body = [BodyInit EXCEPT !.position.z = memories[1].worldPosition.z]
  /\ car = CarInit
  /\ memoryLandmarks = createMemoryLandmarks
  /\ world = WorldInit(createMemoryLandmarks)
  /\ memoryManager = MemoryManagerInit
  /\ variant = "none"
  /\ events = 0
  /\ camera = CameraInit
  /\ lastCall = NothingReceived
  /\ build = "nocar"
  /\ detail = DetailInit
  /\ activeTicks = ActiveTicksInit

NextNoCar ==
  \/ Tick
  \/ WorldUpdate
  \/ CameraUpdate
  \/ \E id \in MemoryIds \cup {UnknownId} : TeleportToMemory(id)
  \/ ClearActiveMemory
  \/ MouseDown(MousePress[1], MousePress[2])
  \/ \E m \in MouseDrags : MouseMove(m[1], m[2])
  \/ MouseUp

SpecNoCar == InitNoCar /\ [][NextNoCar]_vars

----------------------------------------------------------------------------
(* The free-driving build: steerable car, no landmarks, no timeline *)

SteerKeys == {"forward", "backward", "left", "right"}

InitSteer ==
  /\ time = TimeInit(SteerableListeners)
  /\ keys = [forward |-> FALSE, backward |-> FALSE, left |-> FALSE, right |-> FALSE]
  /\ body = BodyInit
  /\ car = CarInit
  /\ memoryLandmarks = <<>>
  /\ world = WorldInit(<<>>)
  /\ memoryManager = MemoryManagerInit
  /\ variant = "steerable"
  /\ events = 0
  /\ camera = CameraInit
  /\ lastCall = NothingReceived
  /\ build = "steer"
  /\ detail = DetailInit
  /\ activeTicks = ActiveTicksInit

NextSteer ==
  \/ Tick
  \/ PhysicsStep
  \/ CarUpdateSteer
  \/ \E k \in SteerKeys : KeyDown(k)
  \/ \E k \in SteerKeys : KeyUp(k)

SpecSteer == InitSteer /\ [][NextSteer]_vars

----------------------------------------------------------------------------
(* Clicks on the buttons of the detail view (World.setupRaycaster) *)

\* click on a landmark's open button
OpenDetailView(memoryId) ==
  /\ BetweenFrames
  /\ LET r == openDetailView(detail, camera, memoryLandmarks, memoryId)
     IN detail' = r.detail /\ camera' = r.camera
  /\ events' = events + 1
  /\ UNCHANGED <<time, keys, body, car, memoryLandmarks, world, memoryManager, variant,
                 lastCall, build, activeTicks>>

\* click on the close button
CloseDetailView ==
  /\ BetweenFrames
  /\ LET r == closeDetailView(detail, camera, memoryLandmarks)
     IN detail' = r.detail /\ camera' = r.camera
  /\ events' = events + 1
  /\ UNCHANGED <<time, keys, body, car, memoryLandmarks, world, memoryManager, variant,
                 lastCall, build, activeTicks>>

\* click on the previous (-1) or next (1) button
GalleryImage(step) ==
  /\ BetweenFrames
  /\ detail' = stepGalleryImage(detail, step)
  /\ events' = events + 1
  /\ UNCHANGED <<time, keys, body, car, memoryLandmarks, world, memoryManager, variant,
                 camera, lastCall, build, activeTicks>>

\* a point beside the first landmark and a point far from every landmark
DetailTeleportPoints == {Vec3(0, 0, 2000), Vec3(0, 0, 40000)}

InitDetail ==
  /\ time = TimeInit(RigListeners)
  /\ keys = [forward |-> FALSE, backward |-> FALSE, left |-> FALSE, right |-> FALSE]
  /\ body = BodyInit
  /\ car = CarInit
  /\ memoryLandmarks = createMemoryLandmarks
  /\ world = WorldInit(createMemoryLandmarks)
  /\ memoryManager = MemoryManagerInit
  /\ variant = "fixed"
  /\ events = 0
  /\ camera = CameraInit
  /\ lastCall = NothingReceived
  /\ build = "detail"
  /\ detail = DetailInit
  /\ activeTicks = ActiveTicksInit

NextDetail ==
  \/ Tick
  \/ PhysicsStep
  \/ CarUpdate
  \/ WorldDetailUpdate
  \/ ZoneCameraUpdate
  \/ \E p \in DetailTeleportPoints : Teleport(p)
  \/ \E id \in MemoryIds \cup {UnknownId} : OpenDetailView(id)
  \/ CloseDetailView
  \/ \E step \in {-1, 1} : GalleryImage(step)

SpecDetail == InitDetail /\ [][NextDetail]_vars

----------------------------------------------------------------------------
(* The timeline build followed through whole navigations: the vehicle is put   *)
(* on the road by teleport, a timeline node is clicked and the frames run.     *)

JourneyStartPoints == {Vec3(0, 0, 2000), Vec3(0, 0, 5000)}

InitJourney ==
  /\ time = TimeInit(TimelineListeners)
  /\ keys = [forward |-> FALSE, backward |-> FALSE, left |-> FALSE, right |-> FALSE]
  /\ body = BodyInit
  /\ car = CarInit
  /\ memoryLandmarks = createMemoryLandmarks
  /\ world = WorldInit(createMemoryLandmarks)
  /\ memoryManager = MemoryManagerInit
  /\ variant = "fixed"
  /\ events = 0
  /\ camera = CameraInit
  /\ lastCall = NothingReceived
  /\ build = "journey"
  /\ detail = DetailInit
  /\ activeTicks = ActiveTicksInit

NextJourney ==
  \/ Tick
  \/ PhysicsStep
  \/ CarUpdate
  \/ WorldUpdate
  \/ \E id \in MemoryIds : time.frames <= MaxClickFrame /\ TeleportToMemory(id)
  \/ \E p \in JourneyStartPoints : time.frames <= MaxClickFrame /\ Teleport(p)

SpecJourney == InitJourney /\ [][NextJourney]_vars

\* emit: the listener whose turn it is runs and returns
CallbackReturns == time.pc # 0 /\ time' = nextCallback(time)

\* requestAnimationFrame keeps the frames coming and emit runs every listener
SpecJourneyFair ==
  /\ SpecJourney
  /\ WF_vars(Tick)
  /\ WF_time(CallbackReturns)

----------------------------------------------------------------------------
(* The free-driving build with only the steering keys in use *)

SteeringKeys == {"left", "right"}

InitSteering ==
  /\ time = TimeInit(SteerableListeners)
  /\ keys = [forward |-> FALSE, backward |-> FALSE, left |-> FALSE, right |-> FALSE]
  /\ body = BodyInit
  /\ car = CarInit
  /\ memoryLandmarks = <<>>
  /\ world = WorldInit(<<>>)
  /\ memoryManager = MemoryManagerInit
  /\ variant = "steerable"
  /\ events = 0
  /\ camera = CameraInit
  /\ lastCall = NothingReceived
  /\ build = "steering"
  /\ detail = DetailInit
  /\ activeTicks = ActiveTicksInit

NextSteering ==
  \/ Tick
  \/ PhysicsStep
  \/ CarUpdateSteer
  \/ \E k \in SteeringKeys : KeyDown(k)
  \/ \E k \in SteeringKeys : KeyUp(k)

SpecSteering == InitSteering /\ [][NextSteering]_vars

----------------------------------------------------------------------------
(* Both controllers side by side: the timeline build with its fixed-heading  *)
(* car, or the free-driving build with the steerable car.                     *)

InitControllers == InitNav \/ InitSteer

NextControllers ==
  \/ build = "nav" /\ NextNav
  \/ build = "steer" /\ NextSteer

SpecControllers == InitControllers /\ [][NextControllers]_vars

----------------------------------------------------------------------------
(* Claims *)

\* C1: whenever a landmark was active and, on a tick of World.update, no landmark is
\* within proximityRadius of the vehicle, after that tick the engine's current landmark
\* and the registry's active memory are both none.
C1_ClearedWhenNoneInRange ==
  [][(/\ Running("world")
      /\ world.currentHighlightedLandmark # 0
      /\ closestLandmarkOf(memoryLandmarks, body.position) = 0)
     => (/\ world'.currentHighlightedLandmark = 0
         /\ memoryManager'.activeMemoryId = Null
         /\ memoryManager'.activeMemory = 0)]_vars

\* C2: clearActiveMemory() called while no memory is active leaves the whole registry
\* state (activeMemoryId, activeMemory, previousMemoryId) unchanged.
C2_ClearIsIdempotent ==
  [][(ClearActiveMemory /\ memoryManager.activeMemoryId = Null)
     => memoryManager' = memoryManager]_vars

\* C3: the tick on which Car.update ends a navigation leaves the vehicle within the
\* arrival threshold (2 m, straight line) of the navigation target, in Manual mode with
\* no target, and with zero velocity.
C3_ArrivesWithinThreshold ==
  [][(Running("car") /\ car.isNavigating /\ ~car'.isNavigating)
     => (/\ DistSq(body'.position, car.navigationTarget[1])
              < navigationArrivalDistance * navigationArrivalDistance
         /\ car'.navigationTarget = <<>>
         /\ body'.velocity = Zero3)]_vars

\* C4: in Manual mode with only the forward key held, the forward speed observed after
\* the physics step (which integrates the forward force) and after the controller update
\* never exceeds maxSpeed and never decreases.
C4_ForwardSpeedCapped ==
  [][(/\ keys.forward /\ ~keys.backward /\ ~car.isNavigating
      /\ \/ Running("physics") /\ body.force.z = acceleration * mass
         \/ Running("car"))
     => (body'.velocity.z <= maxSpeed /\ body'.velocity.z >= body.velocity.z)]_vars

\* C5: in every reachable state and control mode the forward speed is within
\* [-maxSpeed/2, maxSpeed].
C5_SpeedWithinCaps ==
  body.velocity.z >= -(maxSpeed \div 2) /\ body.velocity.z <= maxSpeed

\* C6: for every tick and both controller variants, the vertical component of the
\* vehicle's velocity is exactly zero immediately after Car.update returns, whatever
\* the physics step left in it and whichever branch ran.
C6_VerticalVelocityZero == Returned("car") => body.velocity.y = 0

\* C7: in Manual mode with no drive key held, each controller update strictly shrinks the
\* magnitude of a nonzero longitudinal velocity, makes it exactly zero once the damped
\* value is under the threshold, and never changes its sign; between two such updates
\* the physics step, with no force pending, does not grow it, so zero stays zero.
IdleManual == ~keys.forward /\ ~keys.backward /\ ~car.isNavigating

SameSignOrZero(v, w) == (v >= 0 /\ w >= 0) \/ (v <= 0 /\ w <= 0)

Intensity(i) == world.highlightIntensity[i]

\* C8: on every tick of the activation engine at most one landmark's highlightIntensity
\* increases, and no landmark other than the current one increases.
C8_AtMostOneIncreases ==
  [][Running("world")
     => /\ Cardinality({i \in 1..Len(memoryLandmarks) :
                          world'.highlightIntensity[i] > Intensity(i)}) <= 1
        /\ \A i \in 1..Len(memoryLandmarks) :
             i # world'.currentHighlightedLandmark
               => world'.highlightIntensity[i] <= Intensity(i)]_vars

\* C8 witness: the current landmark's intensity has increased on two ticks
C8_Witness ==
  /\ Returned("world")
  /\ world.currentHighlightedLandmark # 0
  /\ Intensity(world.currentHighlightedLandmark) >= 2 * highlightSpeed
  /\ \A i \in 1..Len(memoryLandmarks) :
       i # world.currentHighlightedLandmark => Intensity(i) = 0

\* C9: on every tick every landmark's highlightIntensity moves by at most highlightSpeed,
\* toward 1 if it is the current landmark and toward 0 otherwise, and stays in [0,1].
C9_IntensityMovesByOneStep ==
  [][Running("world")
     => \A i \in 1..Len(memoryLandmarks) :
          /\ world'.highlightIntensity[i] =
               IF i = world'.currentHighlightedLandmark
               THEN Min(FullIntensity, Intensity(i) + highlightSpeed)
               ELSE Max(0, Intensity(i) - highlightSpeed)
          /\ world'.highlightIntensity[i] \in 0..FullIntensity]_vars

\* C10: after each tick the current landmark is the landmark of minimum distance to the
\* vehicle among those strictly inside proximityRadius, the first of them in registry
\* order when several share the minimum, and none when no landmark is inside.
InRange(i) == DistSq(body.position, memoryLandmarks[i].position) < proximityRadius * proximityRadius

Nearest(i) ==
  /\ InRange(i)
  /\ \A j \in 1..Len(memoryLandmarks) :
       InRange(j) =>
         \/ DistSq(body.position, memoryLandmarks[i].position)
              < DistSq(body.position, memoryLandmarks[j].position)
         \/ /\ DistSq(body.position, memoryLandmarks[i].position)
                = DistSq(body.position, memoryLandmarks[j].position)
            /\ i <= j

C10_CurrentIsNearest ==
  [][Running("world")
     => IF \E i \in 1..Len(memoryLandmarks) : InRange(i)
        THEN /\ world'.currentHighlightedLandmark # 0
             /\ Nearest(world'.currentHighlightedLandmark)
        ELSE world'.currentHighlightedLandmark = 0]_vars

\* C10 witness: two landmarks at the same minimum distance, the first one is current
C10_Witness ==
  /\ Returned("world")
  /\ world.currentHighlightedLandmark = 1
  /\ InRange(2)
  /\ DistSq(body.position, memoryLandmarks[1].position)
       = DistSq(body.position, memoryLandmarks[2].position)

\* the vehicle stands on the road at z (cm) while the landmarks are those of the
\* registry: A = memory-1 at z = 20 m, B = memory-2 at z = 50 m, radius 15 m
OnRoadAt(z) ==
  /\ memoryLandmarks = createMemoryLandmarks
  /\ body.position.x = 0
  /\ body.position.z = z

\* C11: with landmarks A at z = 20 and B at z = 50 and radius 15, the tick of the
\* activation engine with the vehicle at z = 20 makes A the active landmark, at z = 35
\* the active landmark is the first in registry order (A), at z = 50 it is B, and far
\* away (beyond every radius) it is none.
C11_ScenarioTieKeepsFirst ==
  [][Running("world")
     => /\ OnRoadAt(2000) => world'.currentHighlightedLandmark = 1
        /\ OnRoadAt(3500) => world'.currentHighlightedLandmark = 1
        /\ OnRoadAt(5000) => world'.currentHighlightedLandmark = 2
        /\ OnRoadAt(40000) => world'.currentHighlightedLandmark = 0]_vars

\* C11 amended: as C11, but at z = 35, where neither landmark is strictly within the
\* radius, the active landmark is none.
C11_ScenarioMidwayNone ==
  [][Running("world")
     => /\ OnRoadAt(2000) => world'.currentHighlightedLandmark = 1
        /\ OnRoadAt(3500) => world'.currentHighlightedLandmark = 0
        /\ OnRoadAt(5000) => world'.currentHighlightedLandmark = 2
        /\ OnRoadAt(40000) => world'.currentHighlightedLandmark = 0]_vars

\* C11 witness: A was made active at z = 20 (the registry still names it) and the tick at
\* z = 35 has left no landmark active
C11_Witness ==
  /\ Returned("world")
  /\ OnRoadAt(3500)
  /\ memoryManager.activeMemoryId = "memory-1"
  /\ world.currentHighlightedLandmark = 0

\* targetPosition raised by the collider offset and half the height
Raised(p) == Vec3(p.x, p.y + colliderOffset + height \div 2, p.z)

\* C12: teleport(p), called in any vehicle state, puts the body at p raised by the
\* collider offset, makes linear and angular velocity exactly zero, resets the
\* orientation to forward-facing and leaves the vehicle not navigating with no target;
\* a second teleport(p) right after it changes nothing.
C12_TeleportResetsAndIsIdempotent ==
  [][\A p \in NavTeleportPoints :
       Teleport(p)
       => /\ body'.position = Raised(p)
          /\ body'.velocity = Zero3
          /\ body'.angularVelocity = Zero3
          /\ body'.heading = 0
          /\ ~car'.isNavigating
          /\ car'.navigationTarget = <<>>
          /\ teleportBody(body', p) = body'
          /\ teleportCar(car', p) = car']_vars

\* C12 witness: teleport has been called on a vehicle that was under way to a memory
\* (the force of the last navigation update is still pending)
C12_Witness ==
  /\ lastCall.name = "teleport"
  /\ time.pc = 0
  /\ body.force.z # 0
  /\ ~keys.forward /\ ~keys.backward
  /\ memoryManager.activeMemoryId # Null
  /\ ~car.isNavigating

\* C13: every rig update sets the rig exactly to the freshly computed target when
\* the distance to it exceeds the teleport-detection threshold and otherwise moves it
\* the fixed fraction toward it; and in the rig update of the tick that follows
\* teleport(p) the rig ends within the threshold of its target and the velocity of
\* the vehicle is exactly zero.
C13_SnapAndRestAfterTeleport ==
  [][Running("camera")
     => LET target == targetRigPosition(camera, body.position)
            current == camera.currentRigPosition
        IN /\ DistSq(current, target) > snapDistance * snapDistance
                => camera'.currentRigPosition = target
           /\ DistSq(current, target) <= snapDistance * snapDistance
                => camera'.currentRigPosition = lerp(current, target)
           /\ lastCall.name = "teleport"
                => /\ DistSq(camera'.currentRigPosition, target)
                        <= snapDistance * snapDistance
                   /\ body.velocity = Zero3]_vars

KeyStates ==
  [forward : BOOLEAN, backward : BOOLEAN, left : {FALSE}, right : {FALSE}]

\* C14: while the vehicle is navigating, the key flags have no effect on what
\* Car.update does: with any other combination of held keys the update would leave
\* the same body (position, velocity, applied force) and the same car state, and a key
\* event during navigation changes neither.
C14_KeysIgnoredWhileNavigating ==
  [][car.isNavigating
     => /\ Running("car")
             => \A k \in KeyStates :
                  updateFixed(body, car, k) = [body |-> body', car |-> car']
        /\ keys' # keys => body' = body /\ car' = car]_vars

\* C14 witness: a navigation update has pushed the vehicle forward while the backward
\* key was held
C14_Witness ==
  /\ Returned("car")
  /\ car.isNavigating
  /\ keys.backward /\ ~keys.forward
  /\ body.force.z = navigationSpeed * mass

Sign(x) == IF x > 0 THEN 1 ELSE IF x < 0 THEN -1 ELSE 0

\* C15: teleport cancels a navigation in progress (Manual mode, no target, and with no
\* key held nothing moves the vehicle on the tick after it), a new navigateTo replaces
\* the target, and from either call on no earlier target acts on the vehicle: the
\* navigation force a physics step integrates points to the latest target.
C15_CancelAndRedirect ==
  [][/\ \A p \in NavTeleportPoints :
          Teleport(p) => ~car'.isNavigating /\ car'.navigationTarget = <<>>
     /\ \A id \in MemoryIds :
          TeleportToMemory(id)
          => /\ car'.isNavigating
             /\ car'.navigationTarget = <<Raised(memories[getMemoryById(id)].worldPosition)>>
     /\ (Running("physics") /\ lastCall.name = "teleport"
           /\ ~keys.forward /\ ~keys.backward)
          => /\ body'.velocity.z = 0
             /\ body'.position.z = body.position.z
     /\ (Running("physics") /\ lastCall.name = "teleportToMemory" /\ car.isNavigating
           /\ Abs(body.force.z) = navigationSpeed * mass)
          => Sign(body.force.z) = Sign(car.navigationTarget[1].z - body.position.z)]_vars

C17_KeyEventsOnlySetFlags ==
  [][/\ (keys' # keys =>
          /\ BetweenFrames
          /\ body' = body
          /\ car' = car
          /\ time' = time)
     /\ (body'.force # body.force /\ body'.force # Zero3 => Running("car"))]_vars

\* the forward key was pressed on a resting vehicle and nothing else has changed yet
C17_Witness ==
  /\ keys.forward
  /\ BetweenFrames
  /\ events = 1
  /\ body = BodyInit
  /\ car = CarInit

\* C18: TimelineUI.teleportToMemory with an id that has no registry entry is a no-op: the
\* call leaves the registry's active memory, the control mode, the navigation target and
\* the body unchanged, and it returns (the step exists).
C18_UnknownMemoryIsNoOp ==
  [][/\ events' = events + 1
     /\ lastCall'.name = "teleportToMemory"
     /\ lastCall'.arg \notin MemoryIds
     => /\ memoryManager' = memoryManager
        /\ car' = car
        /\ body' = body]_vars

\* an unknown id was requested while a navigation to memory-1 was under way, and the
\* navigation and the active memory are still those of memory-1
C18_Witness ==
  /\ lastCall = Received("teleportToMemory", UnknownId)
  /\ BetweenFrames
  /\ car.isNavigating
  /\ car.navigationTarget # <<>>
  /\ memoryManager.activeMemoryId = "memory-1"

TargetAngles(cam) == <<cam.targetYaw, cam.targetPitch>>

C24_MeshFollowsBody ==
  [][Running("car") => car'.meshPosition = body'.position]_vars

\* C25: after every tick of the activation engine the registry's active memory agrees
\* with the engine's current landmark: activeMemoryId is the memoryId of
\* currentHighlightedLandmark, and null when there is no current landmark, however
\* timeline clicks are interleaved with the ticks.
C25_RegistryAgreesWithEngine ==
  [][Running("world")
     => memoryManager'.activeMemoryId =
          IF world'.currentHighlightedLandmark = 0 THEN Null
          ELSE memoryLandmarks[world'.currentHighlightedLandmark].memoryId]_vars

----------------------------------------------------------------------------
----------------------------------------------------------------------------
\* C27: for every sequence of openDetailView and closeDetailView calls, two opens
\* without a close included, once the view is closed every object that was
\* visible before the first open is visible again, hiddenObjects is empty and no
\* detail-view group is attached to the scene.
C27_ClosedRestoresScene ==
  detail.activeDetailView = Null
    => /\ detail.visible = SceneObjects
       /\ detail.hiddenObjects = {}
       /\ detail.attached = {}

----------------------------------------------------------------------------
\* C28: in the fixed-heading controller, across navigateTo, teleport and update,
\* the navigating flag is set exactly when a navigation target is stored.
C28_NavigatingIffTarget ==
  variant = "fixed" => (car.isNavigating <=> car.navigationTarget # <<>>)

\* Car.update has run on a navigation under way and kept flag and target
C28_Witness ==
  /\ variant = "fixed"
  /\ Returned("car")
  /\ car.isNavigating
  /\ car.navigationTarget # <<>>

----------------------------------------------------------------------------
\* C29: after any sequence of setActiveMemory(id) calls, with known or unknown
\* ids, and clearActiveMemory() calls, activeMemory is non-null exactly when
\* activeMemoryId is non-null, and when non-null it is the entry whose id is
\* activeMemoryId.
C29_ActiveMemoryMatchesId ==
  /\ memoryManager.activeMemory # 0 <=> memoryManager.activeMemoryId # Null
  /\ memoryManager.activeMemory # 0
       => memories[memoryManager.activeMemory].id = memoryManager.activeMemoryId

----------------------------------------------------------------------------
\* C30: a landmark that has been the highlighted one for 20 consecutive ticks has
\* highlight intensity exactly 1 and keeps it while it stays highlighted; a
\* landmark that has not been the highlighted one for 20 consecutive ticks has
\* intensity exactly 0 and keeps it.
C30_SettledAfterTwentyTicks ==
  \A i \in 1..Len(memoryLandmarks) :
    /\ activeTicks[i] = SettleTicks => world.highlightIntensity[i] = FullIntensity
    /\ activeTicks[i] = -SettleTicks => world.highlightIntensity[i] = 0

\* landmark 2 has been highlighted for more than 20 ticks and landmark 1 idle for
\* as long, the vehicle standing beside landmark 2
C30_Witness ==
  /\ activeTicks[2] = SettleTicks
  /\ activeTicks[1] = -SettleTicks
  /\ time.frames > SettleTicks + 1
  /\ world.currentHighlightedLandmark = 2
  /\ world.highlightIntensity[2] = FullIntensity
  /\ world.highlightIntensity[1] = 0
====
